---- MODULE Spec2Model ----
(***************************************************************************)
(* Product API of the cloud-devops-automation-platform: the products table *)
(* (src/api/models.py), the persistence operations (src/api/crud.py), the  *)
(* request schemas (src/api/schemas.py) and the HTTP handlers              *)
(* (src/api/main.py).                                                      *)
(*                                                                         *)
(* Every request runs in its own SQLAlchemy session against a store with   *)
(* READ COMMITTED isolation.  A write request is two steps: the reads it   *)
(* does before flushing (which begin its transaction) and the commit       *)
(* (flush, COMMIT, and the refresh of the instance).  Sessions whose       *)
(* commit is pending are kept in `inflight`.                               *)
(*                                                                         *)
(* Strings are sequences of characters, Optional values are sequences of   *)
(* length 0 (None) or 1, prices are counted in cents.                      *)
(***************************************************************************)
EXTENDS Integers, Sequences, FiniteSets, TLC

\* ---------------------------------------------------------------- bounds
MaxId == 2          \* values the id sequence may hand out in a run
MaxClock == 2       \* write transactions begun in a run
MaxInFlight == 2    \* sessions with a pending commit at the same time

\* ---------------------------------------------------------------- values
None == <<>>
Some(v) == <<v>>
IsNone(o) == Len(o) = 0
Val(o) == o[1]

Ids == 1..MaxId

\* a string of n times the character c
Repeat(c, n) == [i \in 1..n |-> c]

Payload(name, description, price) ==
    [name |-> name, description |-> description, price |-> price]

\* request bodies of POST /products/ as received, before validation
CreatePayloads ==
    { Payload(Some(<<"a">>), None, Some(1)),
      Payload(Some(<<" ", "a", " ">>), Some(<<"d">>), Some(2)),
      Payload(Some(<<"b">>), Some(<<"d">>), Some(1)),
      Payload(Some(<<" ">>), None, Some(1)),
      Payload(Some(<<"a">>), None, Some(0)),
      Payload(None, None, Some(1)),
      Payload(Some(Repeat("a", 256)), None, Some(1)),
      Payload(Some(<<"b">>), Some(Repeat("d", 10001)), Some(1)) }

\* request bodies of PUT /products/{id} as received, before validation
UpdatePayloads ==
    { Payload(Some(<<"a">>), None, None),
      Payload(Some(<<"b", " ">>), None, None),
      Payload(None, None, Some(1)),
      Payload(None, Some(<<"e">>), Some(2)),
      Payload(None, None, Some(0)),
      Payload(Some(<<" ", " ">>), None, Some(-1)) }

\* the query parameters of GET /products/: skip and limit are plain ints,
\* the defaults are 0 and 100
ListQuery(skip, limit) == [skip |-> skip, limit |-> limit]

ListQueries ==
    { ListQuery(0, 100), ListQuery(0, 1), ListQuery(1, 1),
      ListQuery(2, 100), ListQuery(-1, 1) }

VARIABLES
    table,      \* the committed rows of the products table
    seq,        \* last value handed out by the id sequence
    clock,      \* start time of the latest transaction; now() of a
                \* transaction is its start time, and transactions start at
                \* distinct times
    inflight,   \* sessions that have read and not yet committed
    last,       \* the response sent by the latest step, NoResponse if none
    deleted     \* history: the ids whose DELETE has been answered 204

vars == <<table, seq, clock, inflight, last, deleted>>

\* ------------------------------------------------------------ schemas.py
RECURSIVE LStrip(_)
LStrip(s) == IF Len(s) > 0 /\ Head(s) = " " THEN LStrip(Tail(s)) ELSE s

RECURSIVE RStrip(_)
RStrip(s) ==
    IF Len(s) > 0 /\ s[Len(s)] = " " THEN RStrip(SubSeq(s, 1, Len(s) - 1)) ELSE s

\* constr(strip_whitespace=True)
Strip(s) == RStrip(LStrip(s))

NameMinLen == 1
NameMaxLen == 255
DescriptionMaxLen == 10000

\* constr(strip_whitespace=True, min_length=1, max_length=255)
NameValid(raw) == Len(Strip(raw)) >= NameMinLen /\ Len(Strip(raw)) <= NameMaxLen

\* validator description_length
DescriptionValid(d) == IsNone(d) \/ Len(Val(d)) <= DescriptionMaxLen

PriceValidNonNegative(p) == p >= 0

\* condecimal(gt=0)
PriceValid(p) == p > 0

\* ProductCreate: name and price are required
ProductCreateValid(name, description, price) ==
    /\ ~IsNone(name) /\ NameValid(Val(name))
    /\ DescriptionValid(description)
    /\ ~IsNone(price) /\ PriceValid(Val(price))

\* ProductUpdate: every field is optional
ProductUpdateValid(name, description, price) ==
    /\ IsNone(name) \/ NameValid(Val(name))
    /\ DescriptionValid(description)
    /\ IsNone(price) \/ PriceValid(Val(price))

\* the fields of a create body that fail validation, in field order
ProductCreateErrors(name, description, price) ==
    (IF IsNone(name) \/ ~NameValid(Val(name)) THEN <<"name">> ELSE <<>>)
    \o (IF ~DescriptionValid(description) THEN <<"description">> ELSE <<>>)
    \o (IF IsNone(price) \/ ~PriceValid(Val(price)) THEN <<"price">> ELSE <<>>)

\* the fields of an update body that fail validation, in field order
ProductUpdateErrors(name, description, price) ==
    (IF ~IsNone(name) /\ ~NameValid(Val(name)) THEN <<"name">> ELSE <<>>)
    \o (IF ~DescriptionValid(description) THEN <<"description">> ELSE <<>>)
    \o (IF ~IsNone(price) /\ ~PriceValid(Val(price)) THEN <<"price">> ELSE <<>>)

\* the validated model object: the name is stored stripped
Normalize(name) == IF IsNone(name) THEN None ELSE Some(Strip(Val(name)))

\* ------------------------------------------------------------- models.py
\* Column(String(255), unique=True): the store rejects a write that would
\* give the name to a row when another row already holds it
UniqueViolationOff(tbl, name, id) == FALSE

UniqueViolation(tbl, name, id) == \E r \in tbl : r.name = name /\ r.id # id

\* Column(Integer, primary_key=True, autoincrement=True): the next value of
\* the sequence; a value handed out is never handed out again
NextIdReuse(tbl, s) == Cardinality({i \in Ids : \E r \in tbl : r.id >= i}) + 1

NextId(tbl, s) == s + 1

\* ---------------------------------------------------------------- rows
RowsById(tbl, id) == {r \in tbl : r.id = id}

\* query(Product).filter(Product.id == id).first()
FirstById(tbl, id) ==
    IF RowsById(tbl, id) = {} THEN None ELSE Some(CHOOSE r \in RowsById(tbl, id) : TRUE)


\* query(Product).filter(Product.name == name).first() is not None
ExistsByName(tbl, name) == \E r \in tbl : r.name = name

ExistsOtherByNameAnyId(tbl, name, id) == \E r \in tbl : r.name = name

\* query(Product).filter(Product.name == name, Product.id != id).first()
\* is not None
ExistsOtherByName(tbl, name, id) == \E r \in tbl : r.name = name /\ r.id # id

\* ------------------------------------------------- requests and responses
Request(op, id, name, description, price) ==
    [op |-> op, id |-> id, name |-> name, description |-> description, price |-> price]

NoRequest == Request("none", 0, None, None, None)

Session(req, loaded, tx) == [req |-> req, loaded |-> loaded, tx |-> tx]

Response(req, stage, status, detail, body) ==
    [req |-> req, stage |-> stage, status |-> status, detail |-> detail, body |-> body]

\* no response is sent by the step
NoResponse == Response(NoRequest, "none", 0, <<>>, None)

AlreadyExistsMsg(name) == <<"Product with name '", name, "' already exists.">>
NotFoundMsg == <<"Product not found.">>

\* RequestValidationError of FastAPI: the handler is never entered; the
\* detail names the fields that failed, the body is not echoed
ValidationResponse(op, id, fields) ==
    Response(Request(op, id, None, None, None), "validation", 422, fields, None)

\* ----------------------------------------------------- crud.create_product
\* models.Product(name=..., description=..., price=...) as inserted: the id
\* comes from the sequence, created_at and updated_at from server_default
\* now(), the start time of the inserting transaction
NewProductNoDescription(id, req, now) ==
    [id |-> id, name |-> Val(req.name), description |-> None,
     price |-> Val(req.price), created_at |-> now, updated_at |-> now]

NewProduct(id, req, now) ==
    [id |-> id, name |-> Val(req.name), description |-> req.description,
     price |-> Val(req.price), created_at |-> now, updated_at |-> now]

\* db.add; db.commit: the INSERT fails on the unique index
CreateFlush(tbl, row) ==
    IF UniqueViolation(tbl, row.name, row.id) THEN "IntegrityError" ELSE "ok"

CreateExceptReraise(exc) == exc

\* except IntegrityError: raise ProductAlreadyExistsError;
\* except SQLAlchemyError: raise
CreateExcept(exc) ==
    IF exc = "IntegrityError" THEN "ProductAlreadyExistsError" ELSE exc

\* ----------------------------------------------------- main.create_product
CreateStatusGeneric(outcome) ==
    CASE outcome = "ok" -> 201
      [] OTHER -> 500

\* except crud.ProductAlreadyExistsError: 409; except Exception: 500
CreateStatus(outcome) ==
    CASE outcome = "ok" -> 201
      [] outcome = "ProductAlreadyExistsError" -> 409
      [] OTHER -> 500

CreateDetail(outcome, name) ==
    CASE outcome = "ok" -> <<>>
      [] outcome = "ProductAlreadyExistsError" -> AlreadyExistsMsg(name)
      [] OTHER -> <<"Failed to create product.">>

\* bound of the run: a session may still be opened
MayBegin ==
    /\ clock < MaxClock
    /\ Cardinality(inflight) < MaxInFlight

\* bound of the run: the sequence has a value left for every pending insert
MayInsert ==
    seq + Cardinality({s \in inflight : s.req.op = "create"}) < MaxId

Begin(req, loaded) ==
    /\ MayBegin
    /\ clock' = clock + 1
    /\ inflight' = inflight \cup {Session(req, loaded, clock + 1)}
    /\ last' = NoResponse
    /\ UNCHANGED <<table, seq, deleted>>

Respond(resp) ==
    /\ last' = resp
    /\ UNCHANGED <<table, seq, clock, inflight, deleted>>

\* POST /products/ up to the point where the session is flushed
CreateProductRead(name, description, price) ==
    LET req == Request("create", 0, Normalize(name), description, price)
    IN  IF ~ProductCreateValid(name, description, price)
        THEN Respond(ValidationResponse("create", 0,
                        ProductCreateErrors(name, description, price)))
        ELSE IF ExistsByName(table, Val(req.name))
        THEN Respond(Response(req, "read",
                              CreateStatus("ProductAlreadyExistsError"),
                              CreateDetail("ProductAlreadyExistsError", Val(req.name)),
                              None))
        ELSE MayInsert /\ Begin(req, None)

\* POST /products/: db.add, db.commit, db.refresh and the response
CreateProductCommit(s) ==
    /\ s \in inflight
    /\ s.req.op = "create"
    /\ LET row == NewProduct(NextId(table, seq), s.req, s.tx)
           outcome == CreateExcept(CreateFlush(table, row))
       IN  /\ seq' = seq + 1
           /\ table' = IF outcome = "ok" THEN table \cup {row} ELSE table
           /\ last' = Response(s.req, "commit", CreateStatus(outcome),
                               CreateDetail(outcome, row.name),
                               IF outcome = "ok" THEN Some(row) ELSE None)
    /\ inflight' = inflight \ {s}
    /\ UNCHANGED <<clock, deleted>>

\* -------------------------------------------------------- main.get_product
GetProduct(id) ==
    LET req == Request("get", id, None, None, None)
        product == FirstById(table, id)
    IN  IF IsNone(product)
        THEN Respond(Response(req, "read", 404, NotFoundMsg, None))
        ELSE Respond(Response(req, "read", 200, <<>>, product))

\* ------------------------------------------------------- crud.get_products
\* order_by(Product.id)
RECURSIVE SortById(_)
SortById(tbl) ==
    IF tbl = {} THEN <<>>
    ELSE LET r == CHOOSE r \in tbl : \A q \in tbl : r.id <= q.id
         IN  <<r>> \o SortById(tbl \ {r})

\* .offset(skip)
Offset(rows, skip) == SubSeq(rows, skip + 1, Len(rows))

\* .limit(limit)
Limit(rows, limit) ==
    SubSeq(rows, 1, IF limit < Len(rows) THEN limit ELSE Len(rows))

\* .all(): PostgreSQL refuses a negative OFFSET or LIMIT ("OFFSET must not
\* be negative"), which psycopg2 raises as DataError
GetProductsOutcome(skip, limit) ==
    IF skip < 0 \/ limit < 0 THEN "DataError" ELSE "ok"

GetProducts(tbl, skip, limit) == Limit(Offset(SortById(tbl), skip), limit)

ListRequest(skip, limit) ==
    [op |-> "list", id |-> 0, name |-> None, description |-> None,
     price |-> None, skip |-> skip, limit |-> limit]

ListFailedMsg == <<"Failed to retrieve products.">>

\* GET /products/: one SELECT; `except Exception` answers 500
ListProducts(skip, limit) ==
    LET req == ListRequest(skip, limit)
    IN  IF GetProductsOutcome(skip, limit) = "ok"
        THEN Respond(Response(req, "read", 200, <<>>,
                              GetProducts(table, skip, limit)))
        ELSE Respond(Response(req, "read", 500, ListFailedMsg, <<>>))

\* ----------------------------------------------------- crud.update_product
\* the attributes whose assigned value differs from the value loaded by the
\* session: only these are written by the flush
ChangedColumns(req, loaded) ==
    {c \in {"name"} : ~IsNone(req.name) /\ Val(req.name) # loaded.name}
    \cup {c \in {"description"} :
             ~IsNone(req.description) /\ req.description # loaded.description}
    \cup {c \in {"price"} : ~IsNone(req.price) /\ Val(req.price) # loaded.price}

\* UPDATE products SET <changed columns>, updated_at = now() WHERE id = :id,
\* applied to the committed version of the row (READ COMMITTED)
ApplyUpdateTouchesCreatedAt(row, req, cols, now) ==
    [row EXCEPT
        !.name = IF "name" \in cols THEN Val(req.name) ELSE @,
        !.description = IF "description" \in cols THEN req.description ELSE @,
        !.price = IF "price" \in cols THEN Val(req.price) ELSE @,
        !.created_at = now,
        !.updated_at = now]

ApplyUpdate(row, req, cols, now) ==
    [row EXCEPT
        !.name = IF "name" \in cols THEN Val(req.name) ELSE @,
        !.description = IF "description" \in cols THEN req.description ELSE @,
        !.price = IF "price" \in cols THEN Val(req.price) ELSE @,
        !.updated_at = now]

\* db.commit; db.refresh: no UPDATE is emitted when no attribute changed,
\* an UPDATE that matches no row raises StaleDataError, a refresh that finds
\* no row raises InvalidRequestError (both are SQLAlchemyError)
UpdateFlush(tbl, req, cols) ==
    CASE cols = {} /\ RowsById(tbl, req.id) = {} -> "InvalidRequestError"
      [] cols = {} -> "ok"
      [] RowsById(tbl, req.id) = {} -> "StaleDataError"
      [] "name" \in cols /\ UniqueViolation(tbl, Val(req.name), req.id) -> "IntegrityError"
      [] OTHER -> "ok"

\* except IntegrityError: raise ProductAlreadyExistsError;
\* except SQLAlchemyError: raise
UpdateExcept(exc) ==
    IF exc = "IntegrityError" THEN "ProductAlreadyExistsError" ELSE exc

\* ----------------------------------------------------- main.update_product
\* `if not updated_product: raise HTTPException(404)` stands inside the try
\* whose only clause is `except Exception`, which catches it, as it catches
\* ProductAlreadyExistsError and SQLAlchemyError
UpdateStatus(outcome) ==
    CASE outcome = "ok" -> 200
      [] OTHER -> 500

UpdateDetail(outcome) ==
    CASE outcome = "ok" -> <<>>
      [] OTHER -> <<"Failed to update product.">>

\* PUT /products/{id} up to the point where the session is flushed
UpdateProductRead(id, name, description, price) ==
    LET req == Request("update", id, Normalize(name), description, price)
        product == FirstById(table, id)
    IN  IF ~ProductUpdateValid(name, description, price)
        THEN Respond(ValidationResponse("update", id,
                        ProductUpdateErrors(name, description, price)))
        ELSE IF IsNone(product)
        THEN Respond(Response(req, "read", UpdateStatus("HTTPException"),
                              UpdateDetail("HTTPException"), None))
        ELSE IF ~IsNone(req.name) /\ ExistsOtherByName(table, Val(req.name), id)
        THEN Respond(Response(req, "read",
                              UpdateStatus("ProductAlreadyExistsError"),
                              UpdateDetail("ProductAlreadyExistsError"), None))
        ELSE Begin(req, product)

\* PUT /products/{id}: db.commit, db.refresh and the response
UpdateProductCommit(s) ==
    /\ s \in inflight
    /\ s.req.op = "update"
    /\ LET cols == ChangedColumns(s.req, Val(s.loaded))
           outcome == UpdateExcept(UpdateFlush(table, s.req, cols))
           old == RowsById(table, s.req.id)
           new == IF outcome = "ok" /\ cols # {}
                  THEN {ApplyUpdate(r, s.req, cols, s.tx) : r \in old}
                  ELSE old
       IN  /\ table' = (table \ old) \cup new
           /\ last' = Response(s.req, "commit", UpdateStatus(outcome),
                               UpdateDetail(outcome),
                               IF outcome = "ok"
                               THEN Some(CHOOSE r \in new : TRUE) ELSE None)
    /\ inflight' = inflight \ {s}
    /\ UNCHANGED <<seq, clock, deleted>>

\* ----------------------------------------------------- main.delete_product
\* `if not deleted: raise HTTPException(404)` stands inside the try whose
\* only clause is `except Exception`, which catches it
DeleteStatus(outcome) ==
    CASE outcome = "ok" -> 204
      [] OTHER -> 500

DeleteDetail(outcome) ==
    CASE outcome = "ok" -> <<>>
      [] OTHER -> <<"Failed to delete product.">>

\* DELETE /products/{id} up to the point where the session is flushed
DeleteProductRead(id) ==
    LET req == Request("delete", id, None, None, None)
        product == FirstById(table, id)
    IN  IF IsNone(product)
        THEN Respond(Response(req, "read", DeleteStatus("HTTPException"),
                              DeleteDetail("HTTPException"), None))
        ELSE Begin(req, product)

\* DELETE /products/{id}: db.delete, db.commit and the response; a DELETE
\* that matches no row is only warned about
DeleteProductCommit(s) ==
    /\ s \in inflight
    /\ s.req.op = "delete"
    /\ table' = table \ RowsById(table, s.req.id)
    /\ last' = Response(s.req, "commit", DeleteStatus("ok"), DeleteDetail("ok"), None)
    /\ deleted' = deleted \cup {s.req.id}
    /\ inflight' = inflight \ {s}
    /\ UNCHANGED <<seq, clock>>

\* init_db creates the table when it is missing and keeps it otherwise: the
\* service starts on an empty table or on one that earlier runs have filled
\* (here with one product, created at time 0 as id 1 and not updated since)
InitialTables ==
    { {},
      {[id |-> 1, name |-> <<"b">>, description |-> None, price |-> 2,
        created_at |-> 0, updated_at |-> 0]} }

Init ==
    /\ table \in InitialTables
    /\ seq = Cardinality(table)
    /\ clock = 0
    /\ inflight = {}
    /\ last = NoResponse
    /\ deleted = {}

Next ==
    \/ \E p \in CreatePayloads : CreateProductRead(p.name, p.description, p.price)
    \/ \E s \in inflight : CreateProductCommit(s)
    \/ \E id \in Ids : GetProduct(id)
    \/ \E q \in ListQueries : ListProducts(q.skip, q.limit)
    \/ \E id \in Ids, p \in UpdatePayloads :
          UpdateProductRead(id, p.name, p.description, p.price)
    \/ \E s \in inflight : UpdateProductCommit(s)
    \/ \E id \in Ids : DeleteProductRead(id)
    \/ \E s \in inflight : DeleteProductCommit(s)

Spec == Init /\ [][Next]_vars

\* ------------------------------------------------------------ properties
IsAlreadyExists(detail, name) == detail = AlreadyExistsMsg(name)

\* C1: in every reachable state of the products table, under any
\* interleaving of the reads and commits of concurrent create, update and
\* delete requests, no two rows have the same name.
C1_NameUnique ==
    \A r1 \in table, r2 \in table : r1 # r2 => r1.name # r2.name

\* a renaming update lost the race against a create of the same name and was
\* rejected by the store, with two rows in the table
C1_Witness ==
    /\ Cardinality(table) = 2
    /\ last.req.op = "update" /\ last.stage = "commit" /\ last.status # 200
    /\ ~IsNone(last.req.name)
    /\ \E r \in table : r.name = Val(last.req.name) /\ r.id # last.req.id

\* C3 as claimed: a PUT for an id that has no row responds 404 with detail
\* "Product not found." and leaves the table unchanged.
C3_UpdateNotFound404 ==
    [][\A id \in Ids, p \in UpdatePayloads :
          (/\ last'.req.op = "update"
           /\ last'.req.id = id
           /\ RowsById(table, id) = {}
           /\ ProductUpdateValid(p.name, p.description, p.price)
           /\ UpdateProductRead(id, p.name, p.description, p.price))
          => (last'.status = 404 /\ last'.detail = NotFoundMsg /\ table' = table)]_vars

\* C2 as claimed: a PUT whose payload sets name to a value already used by a
\* different row responds 409 with a detail saying the name already exists,
\* and leaves the table unchanged.
C2_UpdateConflict409 ==
    [][\A id \in Ids, p \in UpdatePayloads :
          (/\ last'.req.op = "update"
           /\ last'.req.id = id
           /\ RowsById(table, id) # {}
           /\ ProductUpdateValid(p.name, p.description, p.price)
           /\ ~IsNone(p.name)
           /\ \E r \in table : r.name = Strip(Val(p.name)) /\ r.id # id
           /\ UpdateProductRead(id, p.name, p.description, p.price))
          => (/\ last'.status = 409
              /\ IsAlreadyExists(last'.detail, Strip(Val(p.name)))
              /\ table' = table)]_vars

\* C4 as claimed: a DELETE for an id that has no row responds 404 with
\* detail "Product not found." and leaves the table unchanged.
C4_DeleteNotFound404 ==
    [][\A id \in Ids :
          (RowsById(table, id) = {} /\ DeleteProductRead(id))
          => (last'.status = 404 /\ last'.detail = NotFoundMsg /\ table' = table)]_vars

\* C5: the commit of a create that passed its pre-check is answered 201 or
\* 409 and never 500: when a racing writer has committed the name first, the
\* insert is rolled back and reported as AlreadyExists (409) with the table
\* unchanged; otherwise it is answered 201; either way exactly one row with
\* that name exists afterwards.
C5_RacingCreates ==
    [][\A s \in inflight :
          (last'.stage = "commit" /\ CreateProductCommit(s))
          => LET n == Val(s.req.name)
             IN  /\ (\E r \in table : r.name = n)
                        => (/\ last'.status = 409
                            /\ IsAlreadyExists(last'.detail, n)
                            /\ table' = table)
                 /\ ~(\E r \in table : r.name = n) => last'.status = 201
                 /\ Cardinality({r \in table' : r.name = n}) = 1]_vars

\* a create was rejected at its commit by a row that a racing create inserted
\* after both had passed the pre-check
C5_Witness ==
    /\ last.req.op = "create" /\ last.stage = "commit" /\ last.status = 409
    /\ \E r \in table :
          r.name = Val(last.req.name) /\ r.created_at = r.updated_at

\* C6: a valid create payload whose trimmed name is the name of an existing
\* row is answered 409 AlreadyExists, whatever its description and price,
\* and the table is left unchanged.
C6_DuplicateCreate ==
    [][\A p \in CreatePayloads :
          (/\ last'.req.op \in {"create", "none"}
           /\ ProductCreateValid(p.name, p.description, p.price)
           /\ \E r \in table : r.name = Strip(Val(p.name))
           /\ CreateProductRead(p.name, p.description, p.price))
          => (/\ last'.status = 409
              /\ IsAlreadyExists(last'.detail, Strip(Val(p.name)))
              /\ table' = table)]_vars

\* a create was rejected by the pre-check although its description and price
\* differ from those of the row holding the name
C6_Witness ==
    /\ last.req.op = "create" /\ last.stage = "read" /\ last.status = 409
    /\ \E r \in table :
          /\ r.name = Val(last.req.name)
          /\ r.description # last.req.description
          /\ r.price # Val(last.req.price)

\* C7: an update whose payload sets name to the current name of the row it
\* targets is not rejected by the pre-check, and its commit is answered 200
\* with the row still holding that name, whatever other rows exist.
C7_UpdateOwnName ==
    [][/\ \A id \in Ids, p \in UpdatePayloads :
             (/\ last'.req.op \in {"update", "none"}
              /\ last'.req.id \in {id, 0}
              /\ ProductUpdateValid(p.name, p.description, p.price)
              /\ ~IsNone(p.name)
              /\ \E r \in table : r.id = id /\ r.name = Strip(Val(p.name))
              /\ UpdateProductRead(id, p.name, p.description, p.price))
             => (last' = NoResponse /\ Cardinality(inflight') = Cardinality(inflight) + 1)
       /\ \A s \in inflight :
             (/\ last'.stage = "commit"
              /\ ~IsNone(s.req.name)
              /\ \E r \in table : r.id = s.req.id /\ r.name = Val(s.req.name)
              /\ UpdateProductCommit(s))
             => (/\ last'.status = 200
                 /\ ~IsNone(last'.body)
                 /\ Val(last'.body).name = Val(s.req.name)
                 /\ Val(last'.body) \in table')]_vars

\* with two rows in the table, an update that names only the row's own name
\* was answered 200
C7_Witness ==
    /\ Cardinality(table) = 2
    /\ last.req.op = "update" /\ last.stage = "commit" /\ last.status = 200
    /\ ~IsNone(last.req.name) /\ IsNone(last.req.description) /\ IsNone(last.req.price)
    /\ Val(last.body).name = Val(last.req.name)
    /\ Val(last.body).updated_at = Val(last.body).created_at

\* C8 as claimed: a successful update that supplies only price, equal or not
\* to the current price, leaves name, description, id and created_at of the
\* row and every other row unchanged and sets updated_at strictly later than
\* it was before the update.
C8_PriceOnlyUpdate ==
    [][\A s \in inflight :
          (/\ last'.status = 200
           /\ IsNone(s.req.name) /\ IsNone(s.req.description) /\ ~IsNone(s.req.price)
           /\ UpdateProductCommit(s))
          => /\ \A r \in table : r.id # s.req.id => r \in table'
             /\ \A r \in table : r.id = s.req.id =>
                   \E u \in table' :
                      /\ u.id = r.id /\ u.name = r.name
                      /\ u.description = r.description
                      /\ u.created_at = r.created_at
                      /\ u.updated_at > r.updated_at]_vars

\* C9: a valid create payload whose name no row uses passes the pre-check
\* with its name trimmed, and its commit, when still no row uses the name, is
\* answered 201, adds exactly one row, and returns that row: name,
\* description and price of the request, an id no other row holds, and
\* created_at equal to updated_at.
C9_CreateSucceeds ==
    [][/\ \A p \in CreatePayloads :
             (/\ last'.req.op \in {"create", "none"}
              /\ ProductCreateValid(p.name, p.description, p.price)
              /\ ~(\E r \in table : r.name = Strip(Val(p.name)))
              /\ CreateProductRead(p.name, p.description, p.price))
             => (/\ last' = NoResponse
                 /\ \E s \in inflight' \ inflight :
                       s.req = Request("create", 0, Some(Strip(Val(p.name))),
                                       p.description, p.price))
       /\ \A s \in inflight :
             (/\ last'.stage = "commit"
              /\ s.req.op = "create"
              /\ ~(\E r \in table : r.name = Val(s.req.name))
              /\ CreateProductCommit(s))
             => (/\ last'.status = 201
                 /\ ~IsNone(last'.body)
                 /\ table' = table \cup {Val(last'.body)}
                 /\ Cardinality(table') = Cardinality(table) + 1
                 /\ Val(last'.body).name = Val(s.req.name)
                 /\ Val(last'.body).description = s.req.description
                 /\ Val(last'.body).price = Val(s.req.price)
                 /\ \A r \in table : r.id # Val(last'.body).id
                 /\ Val(last'.body).created_at = Val(last'.body).updated_at)]_vars

\* the payload with the padded name " a " was created as the second row
C9_Witness ==
    /\ Cardinality(table) = 2
    /\ last.req.op = "create" /\ last.status = 201
    /\ Val(last.body).name = <<"a">>
    /\ Val(last.body).description = Some(<<"d">>)
    /\ Val(last.body).price = 2
    /\ Val(last.body) \in table

\* C10: once a DELETE of an id has been answered 204, every later GET of
\* that id is answered 404 "Product not found.", also after further products
\* have been created; the delete removes no row with another id and changes
\* none.
C10_DeleteThenGet ==
    [][/\ \A id \in Ids :
             (id \in deleted /\ GetProduct(id))
             => (last'.status = 404 /\ last'.detail = NotFoundMsg)
       /\ \A s \in inflight :
             (last'.stage = "commit" /\ DeleteProductCommit(s))
             => (/\ last'.status = 204
                 /\ s.req.id \in deleted'
                 /\ table' = {r \in table : r.id # s.req.id})]_vars

\* a GET of a deleted id was answered 404 while a product created after the
\* delete is in the table
C10_Witness ==
    /\ last.req.op = "get" /\ last.status = 404
    /\ last.req.id \in deleted
    /\ \E r \in table : r.id > last.req.id


\* the body of a request fails validation: price zero or negative, name
\* empty, only whitespace or longer than 255 characters after trimming,
\* description longer than 10,000 characters, name or price missing from a
\* create
C11_Fails(req) ==
    \/ (req.op = "create" /\ (IsNone(req.name) \/ IsNone(req.price)))
    \/ (~IsNone(req.price) /\ Val(req.price) <= 0)
    \/ (~IsNone(req.name) /\ Len(Strip(Val(req.name))) = 0)
    \/ (~IsNone(req.name) /\ Len(Strip(Val(req.name))) > 255)
    \/ (~IsNone(req.description) /\ Len(Val(req.description)) > 10000)

\* C11: a create or update payload that fails validation is answered 422
\* without any persistence operation: no request whose body fails
\* validation opens a session or is answered by the persistence layer (it
\* is stopped with 422 before), and a step that answers 422 starts no
\* transaction and leaves the sequence and the table unchanged.
C11_ValidationRejected ==
    [][/\ \A s \in inflight' \ inflight : ~C11_Fails(s.req)
       /\ last'.stage \in {"read", "commit"} => ~C11_Fails(last'.req)
       /\ last'.status = 422
             => (/\ last'.stage = "validation"
                 /\ UNCHANGED <<table, seq, clock, inflight>>)]_vars

\* a create whose description has 10,001 characters was answered 422 while
\* the table holds a product and another request is waiting to commit
C11_Witness ==
    /\ last.req.op = "create" /\ last.status = 422
    /\ last.detail = <<"description">>
    /\ table # {} /\ inflight # {}

\* the ids of the rows of a table
C12_IdsOf(tbl) == {r.id : r \in tbl}

\* C12: in every reachable state every row has updated_at >= created_at, and
\* a live row keeps its id and its created_at through every create, update
\* and delete: a step leaves at most one row under each id, a row that is
\* still there has the created_at it had before, only a create that
\* answers 201 adds an id (a fresh one), and only a delete removes one.
C12_TimestampsAndIdentity ==
    /\ [](\A r \in table : r.updated_at >= r.created_at)
    /\ [][/\ \A r \in table, q \in table' :
                q.id = r.id => q.created_at = r.created_at
          /\ \A q1, q2 \in table' : q1.id = q2.id => q1 = q2
          /\ C12_IdsOf(table') \ C12_IdsOf(table) # {}
                => (/\ last'.req.op = "create" /\ last'.status = 201
                    /\ C12_IdsOf(table') = C12_IdsOf(table) \cup {seq'}
                    /\ seq' > seq)
          /\ C12_IdsOf(table) \ C12_IdsOf(table') # {}
                => (/\ last'.req.op = "delete"
                    /\ C12_IdsOf(table') = C12_IdsOf(table) \ {last'.req.id})]_vars

\* an update answered 200 has just rewritten a row, whose updated_at is now
\* later than its created_at, while another row has been created since
C12_Witness ==
    /\ last.req.op = "update" /\ last.status = 200 /\ last.stage = "commit"
    /\ \E r \in table : r.id = last.req.id /\ r.updated_at > r.created_at
    /\ Cardinality(table) > 1

\* the position of a row in the table sorted by ascending id, from 0
C13_Position(tbl, r) == Cardinality({q \in tbl : q.id < r.id})

\* body is exactly the rows at positions skip .. skip+limit-1, in that
\* order, each once
C13_IsWindow(tbl, skip, limit, body) ==
    /\ \A i \in 1..Len(body) :
          /\ body[i] \in tbl
          /\ C13_Position(tbl, body[i]) = skip + i - 1
    /\ \A r \in tbl :
          (/\ C13_Position(tbl, r) >= skip
           /\ C13_Position(tbl, r) <= skip + limit - 1)
          => \E i \in 1..Len(body) : body[i] = r
    /\ (limit >= 0 => Len(body) <= limit)

\* what a list answers when neither parameter is negative: 200 with
\* exactly the window, the empty sequence when skip is at least the number
\* of rows, the table unchanged
C13_NonNegativeWindow ==
    [][(/\ last'.req.op = "list"
        /\ last'.req.skip >= 0 /\ last'.req.limit >= 0)
       => (/\ last'.status = 200
           /\ C13_IsWindow(table, last'.req.skip, last'.req.limit, last'.body)
           /\ table' = table)]_vars

\* C13: List(skip, limit) answers with exactly the rows at positions
\* skip .. skip+limit-1 of the table sorted by ascending id, at most limit
\* rows, none repeated or omitted; with skip at least the number of rows
\* it answers 200 with the empty sequence; it never modifies the table.
C13_ListWindow ==
    [][last'.req.op = "list"
       => (/\ last'.status = 200
           /\ C13_IsWindow(table, last'.req.skip, last'.req.limit, last'.body)
           /\ (last'.req.skip >= Cardinality(table) => last'.body = <<>>)
           /\ table' = table)]_vars

\* a list with skip 1 and limit 1 over two rows or more answered the second
\* row only
C13_WindowWitness ==
    /\ last.req.op = "list" /\ last.status = 200
    /\ last.req.skip = 1 /\ last.req.limit = 1
    /\ Cardinality(table) >= 2 /\ Len(last.body) = 1

====
